---- MODULE Spec2Model ----
(***************************************************************************)
(* A model of the memory-record subsystem of Kapybara:                     *)
(*   - the split-layout migration (k/agent/memory/migrate_split.py),       *)
(*   - the record identifier scheme (k/agent/memory/entities.py),          *)
(*   - the neighborhood traversal (skills/meta/retrieve-memory).           *)
(*                                                                         *)
(* Files are modelled by their text.  A text is a tagged record:           *)
(*   [t |-> "nofile"]                  the path does not exist             *)
(*   [t |-> "garbage"]                 a text json.loads rejects           *)
(*   [t |-> "doc", fmt, val]           one JSON document; fmt = "canon" is *)
(*        the byte rendering json.dumps(.., ensure_ascii=False,            *)
(*        separators=(",", ":")) + "\n" gives for val, fmt = "other" any   *)
(*        other rendering of the same value (spaces, escapes, no newline)  *)
(*   [t |-> "lines", ls]               a "\n"-joined sequence of lines,    *)
(*        each [t |-> "json", fmt, val], [t |-> "garbage"] or              *)
(*        [t |-> "blank"]                                                  *)
(* JSON values are tagged records too: [t |-> "null"], [t |-> "num"],      *)
(* [t |-> "str", s], [t |-> "list", xs] and objects [t |-> "dict", key..]. *)
(* The order of an object's keys is not modelled.                          *)
(***************************************************************************)
EXTENDS Integers, Sequences, FiniteSets, TLC

(***************************************************************************)
(* JSON values                                                             *)
(***************************************************************************)
JNull == [t |-> "null"]
JNum == [t |-> "num"]
JStr(s) == [t |-> "str", s |-> s]
JList(xs) == [t |-> "list", xs |-> xs]

\* dict.get(key): None (JNull) when the key is missing.
Get(d, k) == IF k \in DOMAIN d THEN d[k] ELSE JNull

IsStr(v) == v.t = "str"
IsList(v) == v.t = "list"
IsDict(v) == v.t = "dict"
IsNone(v) == v.t = "null"

\* The one string of the model that holds a raw Unicode line boundary
\* (U+2028, U+2029 or U+0085): json.dumps(ensure_ascii=False) writes it
\* unescaped and str.splitlines() breaks a line at it.
LSStr == "a<LS>b"
HasLS(s) == s = LSStr

\* Whether the rendering of a JSON value holds a raw line boundary.
RECURSIVE ValHasLS(_)
ValHasLS(v) ==
    CASE v.t = "str" -> HasLS(v.s)
      [] v.t = "list" -> \E i \in 1..Len(v.xs) : ValHasLS(v.xs[i])
      [] v.t = "dict" -> \E k \in DOMAIN v \ {"t"} : ValHasLS(v[k])
      [] OTHER -> FALSE

(***************************************************************************)
(* Texts                                                                   *)
(***************************************************************************)
NoFile == [t |-> "nofile"]
Garbage == [t |-> "garbage"]
BlankLine == [t |-> "blank"]
EmptyText == [t |-> "lines", ls |-> <<>>]

Exists(text) == text.t # "nofile"

\* json.dumps(val, ensure_ascii=False, separators=(",", ":")) + "\n"
DumpsDoc(val) == [t |-> "doc", fmt |-> "canon", val |-> val]
\* json.dumps(val, ensure_ascii=False[, separators=(",", ":")]), one line
DumpsLine(val) == [t |-> "json", fmt |-> "canon", val |-> val]
\* "\n".join(lines) + "\n"
JoinLines(lines) == [t |-> "lines", ls |-> lines]

\* json.loads of a whole file: raises on a text that is not one document.
LoadsRaises(text) == text.t # "doc"
Loads(text) == text.val

(***************************************************************************)
(* Sequence helpers                                                        *)
(***************************************************************************)
RECURSIVE Flatten(_)
Flatten(seqs) == IF seqs = <<>> THEN <<>> ELSE Head(seqs) \o Flatten(Tail(seqs))


(***************************************************************************)
(* Paths: a record id with one of the five file-name suffixes              *)
(*   "json" X.json, "core" X.core.json, "detailed" X.detailed.jsonl,       *)
(*   "ldetailed" X.detailed.json, "compacted" X.compacted.json             *)
(***************************************************************************)
IdOrder == <<"a", "b">>
RecordIds == {IdOrder[i] : i \in 1..Len(IdOrder)}
IdRank(id) == CHOOSE i \in 1..Len(IdOrder) : IdOrder[i] = id
Kinds == {"json", "core", "detailed", "ldetailed", "compacted"}
Paths == [id : RecordIds, kind : Kinds]

PathOf(id, kind) == [id |-> id, kind |-> kind]

record_id_from_path(path) == path.id
detailed_path_for_record_path(path) == PathOf(record_id_from_path(path), "detailed")
legacy_detailed_path_for_record_path(path) == PathOf(record_id_from_path(path), "ldetailed")
core_path_for_record_path(path) == PathOf(record_id_from_path(path), "core")
legacy_compacted_path_for_record_path(path) == PathOf(record_id_from_path(path), "compacted")

(***************************************************************************)
(* Pure helpers of the migration                                           *)
(***************************************************************************)
\* None (JNull) unless value is a list whose items are all strings.
coerce_compacted(value) ==
    IF ~IsList(value) \/ (\E i \in 1..Len(value.xs) : ~IsStr(value.xs[i]))
    THEN JNull
    ELSE value

IsResponse(item) == IsDict(item) /\ Get(item, "kind") = JStr("response")

extract_legacy_model_responses(value) ==
    IF ~IsList(value) THEN <<>> ELSE SelectSeq(value.xs, IsResponse)

\* The test both extraction loops apply to one candidate tool call.
ToolNameOk(d) == IsStr(Get(d, "tool_name")) /\ Get(d, "tool_name").s # ""
ArgsOk(d) == IsNone(Get(d, "args")) \/ IsStr(Get(d, "args")) \/ IsDict(Get(d, "args"))
ToolCall(d) == [t |-> "dict", tool_name |-> Get(d, "tool_name"), args |-> Get(d, "args")]

\* The ToolCall of every kept item, in order.
ToolCallsOf(items) == [i \in 1..Len(items) |-> ToolCall(items[i])]

\* A variant that takes parts of every kind.
KeepPart_AnyKind(part) == IsDict(part) /\ ToolNameOk(part) /\ ArgsOk(part)

\* Lines 124-135.
KeepPart(part) ==
    /\ IsDict(part)
    /\ Get(part, "part_kind") = JStr("tool-call")
    /\ ToolNameOk(part)
    /\ ArgsOk(part)

extract_tool_calls_from_response_dict(resp) ==
    LET parts == Get(resp, "parts")
    IN IF ~IsList(parts) THEN <<>>
       ELSE ToolCallsOf(SelectSeq(parts.xs, KeepPart))

extract_tool_calls_from_legacy_detailed(value) ==
    LET responses == extract_legacy_model_responses(value)
    IN Flatten([i \in 1..Len(responses) |->
                   extract_tool_calls_from_response_dict(responses[i])])

\* text.splitlines(), stripped, the empty ones dropped: a blank line gives
\* nothing, and a written JSON value that holds a raw line boundary comes
\* back as two fragments, neither of them JSON.
Pieces(line) ==
    CASE line.t = "blank" -> <<>>
      [] line.t = "garbage" -> <<Garbage>>
      [] line.t = "json" -> IF ValHasLS(line.val) THEN <<Garbage, Garbage>>
                            ELSE <<line>>

NonEmptyLines(text) == Flatten([i \in 1..Len(text.ls) |-> Pieces(text.ls[i])])

LineLoadsRaises(piece) == piece.t # "json"

KeepItem(item) == IsDict(item) /\ ToolNameOk(item) /\ ArgsOk(item)

ResponseLineCalls(piece) ==
    IF LineLoadsRaises(piece) THEN <<>>
    ELSE IF IsResponse(piece.val)
         THEN extract_tool_calls_from_response_dict(piece.val)
         ELSE <<>>

ParseNone == [input |-> JNull, output |-> JNull, tool_calls |-> <<>>]

\* Lines 159-201, on the non-empty lines.
ParseNonEmpty(non_empty) ==
    IF Len(non_empty) < 2 THEN ParseNone
    ELSE IF LineLoadsRaises(non_empty[1]) \/ LineLoadsRaises(non_empty[2])
    THEN ParseNone
    ELSE IF ~IsStr(non_empty[1].val) \/ ~IsStr(non_empty[2].val) THEN ParseNone
    ELSE IF Len(non_empty) >= 3
    THEN IF ~LineLoadsRaises(non_empty[3]) /\ IsList(non_empty[3].val)
         THEN [input |-> non_empty[1].val, output |-> non_empty[2].val,
               tool_calls |-> ToolCallsOf(SelectSeq(non_empty[3].val.xs, KeepItem))]
         ELSE [input |-> non_empty[1].val, output |-> non_empty[2].val,
               tool_calls |->
                  Flatten([i \in 1..(Len(non_empty) - 2) |->
                              ResponseLineCalls(non_empty[i + 2])])]
    ELSE [input |-> non_empty[1].val, output |-> non_empty[2].val,
          tool_calls |-> <<>>]

parse_existing_detailed_jsonl(text) == ParseNonEmpty(NonEmptyLines(text))

(***************************************************************************)
(* migrate_record_file                                                     *)
(* A disk is a function from Paths to texts.                               *)
(***************************************************************************)
\* The temporary file is created beside the target and renamed over it, so
\* as one step the call replaces the target's text and leaves nothing else.
atomic_write_text(disk, path, text) == [disk EXCEPT ![path] = text]

unlink(disk, path) == [disk EXCEPT ![path] = NoFile]

\* A non-empty str is true.
Truthy(text) == text.ls # <<>>

\* Lines 214-237: every way the call raises; all of them precede the writes.
MigrateRaises(disk, path) ==
    \/ LoadsRaises(disk[path])
    \/ ~IsDict(Loads(disk[path]))
    \/ LET record == Loads(disk[path])
           input_value == Get(record, "input")
           output_value == Get(record, "output")
           legacy_compacted_path == legacy_compacted_path_for_record_path(path)
       IN \/ ~IsNone(input_value) /\ ~IsStr(input_value)
          \/ ~IsNone(output_value) /\ ~IsStr(output_value)
          \/ /\ IsNone(coerce_compacted(Get(record, "compacted")))
             /\ Exists(disk[legacy_compacted_path])
             /\ LoadsRaises(disk[legacy_compacted_path])

\* A variant that never reads the sidecar.
ResolveCompacted_InFileOnly(disk, path, record) ==
    LET in_file == coerce_compacted(Get(record, "compacted"))
    IN IF IsNone(in_file) \/ in_file.xs = <<>> THEN JList(<<>>) ELSE in_file

\* Lines 232-237.
ResolveCompacted(disk, path, record) ==
    LET legacy_compacted_path == legacy_compacted_path_for_record_path(path)
        in_file == coerce_compacted(Get(record, "compacted"))
        merged == IF IsNone(in_file) /\ Exists(disk[legacy_compacted_path])
                  THEN coerce_compacted(Loads(disk[legacy_compacted_path]))
                  ELSE in_file
    IN IF IsNone(merged) \/ merged.xs = <<>> THEN JList(<<>>) ELSE merged

\* Lines 239-246.
CoreText(disk, path) ==
    LET record == Loads(disk[path])
        compacted == ResolveCompacted(disk, path, record)
        core_payload ==
            [k \in (DOMAIN record \ {"input", "output", "detailed"}) \cup {"compacted"} |->
                IF k = "compacted" THEN compacted ELSE record[k]]
    IN DumpsDoc(core_payload)

\* Lines 248-252.
ExistingDetailedText(disk, path) ==
    IF Exists(disk[legacy_detailed_path_for_record_path(path)])
    THEN disk[legacy_detailed_path_for_record_path(path)]
    ELSE IF Exists(disk[detailed_path_for_record_path(path)])
    THEN disk[detailed_path_for_record_path(path)]
    ELSE EmptyText

\* Lines 266-273, on the parsed triple.
LinesOfParsed(parsed) ==
    IF ~IsNone(parsed.input) /\ ~IsNone(parsed.output)
    THEN << DumpsLine(parsed.input), DumpsLine(parsed.output),
            DumpsLine(JList(parsed.tool_calls)) >>
    ELSE <<>>

\* Lines 254-273.
DetailLines(record, existing_detailed_text) ==
    IF ~IsNone(Get(record, "input")) /\ ~IsNone(Get(record, "output"))
    THEN << DumpsLine(Get(record, "input")), DumpsLine(Get(record, "output")),
            DumpsLine(JList(extract_tool_calls_from_legacy_detailed(
                                Get(record, "detailed")))) >>
    ELSE IF Truthy(existing_detailed_text)
    THEN LinesOfParsed(parse_existing_detailed_jsonl(existing_detailed_text))
    ELSE <<>>

\* Line 274.
JoinDetail(detail_lines) ==
    IF detail_lines # <<>> THEN JoinLines(detail_lines) ELSE EmptyText

DetailedText(disk, path) ==
    JoinDetail(DetailLines(Loads(disk[path]), ExistingDetailedText(disk, path)))

\* Lines 276-288.
ChangedFlag(disk, path, core_text, detailed_text) ==
    \/ IF Exists(disk[core_path_for_record_path(path)])
       THEN disk[core_path_for_record_path(path)] # core_text
       ELSE TRUE
    \/ /\ Truthy(detailed_text)
       /\ IF Exists(disk[detailed_path_for_record_path(path)])
          THEN disk[detailed_path_for_record_path(path)] # detailed_text
          ELSE TRUE

\* Line 293.
WriteCore(disk, path, core_text) ==
    atomic_write_text(disk, core_path_for_record_path(path), core_text)

\* Lines 294-297.
WriteDetailed(disk, path, detailed_text) ==
    IF Truthy(detailed_text)
    THEN LET d == atomic_write_text(disk, detailed_path_for_record_path(path),
                                    detailed_text)
             legacy_detailed_path == legacy_detailed_path_for_record_path(path)
         IN IF Exists(d[legacy_detailed_path]) THEN unlink(d, legacy_detailed_path)
            ELSE d
    ELSE disk

\* Lines 299-300.
DeleteSidecar(disk, path, delete_legacy_compacted) ==
    LET legacy_compacted_path == legacy_compacted_path_for_record_path(path)
    IN IF delete_legacy_compacted /\ Exists(disk[legacy_compacted_path])
       THEN unlink(disk, legacy_compacted_path)
       ELSE disk

\* A variant that forgets the dry-run test.
ReturnsEarly_IgnoresDryRun(changed, force, dry_run) == ~changed

\* Line 290: the call returns before writing.
ReturnsEarly(changed, force, dry_run) == dry_run \/ ~changed

\* Lines 276-302, once the two texts are generated.
MigrateWith(disk, path, core_text, detailed_text, changed, delete_legacy_compacted, force, dry_run) ==
    IF ReturnsEarly(changed, force, dry_run)
    THEN [raised |-> FALSE, ret |-> changed, disk |-> disk]
    ELSE [raised |-> FALSE, ret |-> TRUE,
          disk |-> DeleteSidecar(
                      WriteDetailed(WriteCore(disk, path, core_text),
                                    path, detailed_text),
                      path, delete_legacy_compacted)]

MigrateTexts(disk, path, core_text, detailed_text, delete_legacy_compacted, force, dry_run) ==
    MigrateWith(disk, path, core_text, detailed_text,
                ChangedFlag(disk, path, core_text, detailed_text),
                delete_legacy_compacted, force, dry_run)

\* A variant that validates after the write of line 293: a call that raises
\* on a record that is an object has written the core file first.
migrate_record_file_ChecksLate(disk, path, delete_legacy_compacted, force, dry_run) ==
    IF MigrateRaises(disk, path)
    THEN [raised |-> TRUE, ret |-> FALSE,
          disk |-> IF ~dry_run /\ ~LoadsRaises(disk[path]) /\ IsDict(Loads(disk[path]))
                   THEN WriteCore(disk, path,
                            DumpsDoc([k \in DOMAIN Loads(disk[path])
                                              \ {"input", "output", "detailed"} |->
                                        Loads(disk[path])[k]]))
                   ELSE disk]
    ELSE MigrateTexts(disk, path, CoreText(disk, path), DetailedText(disk, path),
                      delete_legacy_compacted, force, dry_run)

\* The whole call: [raised, ret, disk].
migrate_record_file(disk, path, delete_legacy_compacted, force, dry_run) ==
    IF MigrateRaises(disk, path)
    THEN [raised |-> TRUE, ret |-> FALSE, disk |-> disk]
    ELSE MigrateTexts(disk, path, CoreText(disk, path), DetailedText(disk, path),
                      delete_legacy_compacted, force, dry_run)

(***************************************************************************)
(* iter_record_files and main                                              *)
(***************************************************************************)
\* rglob("*.json"): every existing path whose name ends in ".json".
GlobJson(disk) == {p \in Paths : p.kind # "detailed" /\ Exists(disk[p])}

\* A variant that keeps a bare X.json beside its X.core.json.
iter_record_files_KeepsBare(disk) ==
    {p \in GlobJson(disk) : p.kind \notin {"ldetailed", "compacted"}}

\* Lines 50-65.
iter_record_files(disk) ==
    {p \in GlobJson(disk) :
        /\ p.kind \notin {"ldetailed", "compacted"}
        /\ ~(p.kind # "core" /\ Exists(disk[PathOf(p.id, "core")]))}

\* File names of one directory in str order: "a.core.json" < "a.json" < "b...".
PathLess(p, q) ==
    \/ IdRank(p.id) < IdRank(q.id)
    \/ (p.id = q.id /\ p.kind = "core" /\ q.kind = "json")

RECURSIVE Sorted(_)
Sorted(S) ==
    IF S = {} THEN <<>>
    ELSE LET m == CHOOSE x \in S : \A y \in S \ {x} : PathLess(x, y)
         IN <<m>> \o Sorted(S \ {m})

(***************************************************************************)
(* State of a batch run (main) and of the directory it works on            *)
(***************************************************************************)
VARIABLES
    disk,         \* the records directory: Paths -> text
    flags,        \* [delete_legacy_compacted, force, dry_run] of the command line
    pc,           \* "idle" before a run, "loop" inside the for loop, "done" after
    queue,        \* sorted(iter_record_files(root)) not yet visited
    changed,      \* the three counters of main
    skipped,
    errors,
    found,        \* how many record files the run discovered
    exit_status,  \* what main returned
    run,          \* how many runs have started
    last,         \* the last migrate_record_file call: path, disk before, outcome
    hist,         \* the summary of every finished run
    crash         \* whether a call was interrupted, on which path, and the
                  \* directory at the start of the run

migVars == <<disk, flags, pc, queue, changed, skipped, errors, found,
             exit_status, run, last, hist, crash>>

VARIABLES
    awOld,        \* atomic_write_text: the target's text before the call
    awNew,        \* the text to write
    awParent,     \* whether path.parent exists
    awDirents,    \* [target, tmp]: the inode each name is linked to, or "none"
    awInodes,     \* inode -> the chunks it holds
    awFd,         \* the inode the writer has open, or "none"
    awTmpDir,     \* where the temporary file was created
    awPc,         \* the writer's position
    rdFd,         \* the inode a concurrent reader of the target has open
    rdSeen        \* what the reader's last read_text of the target returned

awVars == <<awOld, awNew, awParent, awDirents, awInodes, awFd, awTmpDir, awPc,
            rdFd, rdSeen>>

VARIABLES
    nbIndex,      \* related(): id -> the record the index loads for it
    nbStart,      \* the start id
    nbMaxDepth,   \* max_depth
    nbDepths,     \* depths: a function from the ids discovered to their depth
    nbQ,          \* the deque
    nbEnq,        \* how many times each id has been appended to the deque
    nbPc          \* "loop" | "returned"

nbVars == <<nbIndex, nbStart, nbMaxDepth, nbDepths, nbQ, nbEnq, nbPc>>

VARIABLES
    tsA,          \* two created_at instants
    tsB,
    resA,         \* memory_record_id_from_created_at of each
    resB,
    idPc          \* "input" | "derived"

idVars == <<tsA, tsB, resA, resB, idPc>>

VARIABLES
    recIn,        \* MemoryRecord(...): id_, created_at, parents, children given
    recOut,       \* the constructed record, or raised
    valRes,       \* "none", or the result of is_memory_record_id(recIn.id_)
    recPc         \* "input" | "constructed"

recVars == <<recIn, recOut, valRes, recPc>>

VARIABLES
    stStore,      \* the store: its records in append order
    stCalls,      \* the append calls made
    stLast        \* the last append call: record, store before, raised

stVars == <<stStore, stCalls, stLast>>

vars == <<migVars, awVars, nbVars, idVars, recVars, stVars>>

\* How many times the tool is run over the directory.
MaxRuns == 2

NoCall == [called |-> FALSE, path |-> PathOf("a", "json"),
           before |-> [p \in Paths |-> NoFile], raised |-> FALSE, ret |-> FALSE]

NoCrash == [happened |-> FALSE, path |-> PathOf("a", "json"),
            origin |-> [p \in Paths |-> NoFile]]

MainStart ==
    /\ pc \in {"idle", "done", "crashed"}
    /\ run < MaxRuns
    /\ run' = run + 1
    /\ queue' = Sorted(iter_record_files(disk))
    /\ found' = Len(queue')
    /\ changed' = 0
    /\ skipped' = 0
    /\ errors' = 0
    /\ pc' = "loop"
    /\ crash' = IF crash.happened THEN crash ELSE [crash EXCEPT !.origin = disk]
    /\ UNCHANGED <<disk, flags, exit_status, last, hist>>
    /\ UNCHANGED <<awVars, nbVars, idVars, recVars, stVars>>

\* The except clause and the counters, for the outcome r of the call.
Count(path, r) ==
    /\ disk' = r.disk
    /\ errors' = IF r.raised THEN errors + 1 ELSE errors
    /\ changed' = IF ~r.raised /\ r.ret THEN changed + 1 ELSE changed
    /\ skipped' = IF ~r.raised /\ ~r.ret THEN skipped + 1 ELSE skipped
    /\ last' = [called |-> TRUE, path |-> path, before |-> disk,
                raised |-> r.raised, ret |-> r.ret]

\* A variant whose except clause leaves the loop.
QueueAfter_AbortsOnError(r) == IF r.raised THEN <<>> ELSE Tail(queue)

\* Line 350: continue with the next path, whatever the outcome.
QueueAfter(r) == Tail(queue)

IterateWith(path, r) ==
    /\ Count(path, r)
    /\ queue' = QueueAfter(r)

\* One iteration of the for loop: the call, the except clause, the counters.
MainIterate ==
    /\ pc = "loop"
    /\ queue # <<>>
    /\ IterateWith(Head(queue),
                   migrate_record_file(disk, Head(queue),
                                       flags.delete_legacy_compacted,
                                       flags.force, flags.dry_run))
    /\ UNCHANGED <<flags, pc, found, exit_status, run, hist, crash>>
    /\ UNCHANGED <<awVars, nbVars, idVars, recVars, stVars>>

MainFinish ==
    /\ pc = "loop"
    /\ queue = <<>>
    /\ exit_status' = IF errors # 0 THEN 1 ELSE 0
    /\ pc' = "done"
    /\ hist' = Append(hist, [disk |-> disk, changed |-> changed, skipped |-> skipped,
                             errors |-> errors, found |-> found])
    /\ UNCHANGED <<disk, flags, queue, changed, skipped, errors, found, run, last, crash>>
    /\ UNCHANGED <<awVars, nbVars, idVars, recVars, stVars>>

NextMig == MainStart \/ MainIterate \/ MainFinish

\* The process stops inside a call that writes both files, after the write
\* of line 293 and before the write of line 295.
MainCrash ==
    /\ pc = "loop"
    /\ queue # <<>>
    /\ ~crash.happened
    /\ ~MigrateRaises(disk, Head(queue))
    /\ ~ReturnsEarly(ChangedFlag(disk, Head(queue), CoreText(disk, Head(queue)),
                                 DetailedText(disk, Head(queue))),
                     flags.force, flags.dry_run)
    /\ Truthy(DetailedText(disk, Head(queue)))
    /\ disk' = WriteCore(disk, Head(queue), CoreText(disk, Head(queue)))
    /\ crash' = [crash EXCEPT !.happened = TRUE, !.path = Head(queue)]
    /\ pc' = "crashed"
    /\ queue' = <<>>
    /\ UNCHANGED <<flags, changed, skipped, errors, found, exit_status, run, last, hist>>
    /\ UNCHANGED <<awVars, nbVars, idVars, recVars, stVars>>

NextCrash == MainStart \/ MainIterate \/ MainFinish \/ MainCrash

(***************************************************************************)
(* The directories the runs start from                                     *)
(***************************************************************************)
Flags == [delete_legacy_compacted : BOOLEAN, force : BOOLEAN, dry_run : BOOLEAN]

BaseRecord == [t |-> "dict", id_ |-> JStr("x")]

PartBash == [t |-> "dict", part_kind |-> JStr("tool-call"),
             tool_name |-> JStr("bash"), args |-> JStr("ls")]
PartLS == [t |-> "dict", part_kind |-> JStr("tool-call"),
           tool_name |-> JStr("bash"), args |-> JStr(LSStr)]
Resp(parts) == [t |-> "dict", kind |-> JStr("response"), parts |-> JList(parts)]

NoKeys == [k \in {} |-> JNull]

\* input/output pairs: both, neither, one of them, one of them not a string
InOutOpts ==
    { NoKeys,
      ("input" :> JStr("hi")) @@ ("output" :> JStr("ok")),
      ("input" :> JStr("hi")),
      ("output" :> JStr("ok")),
      ("input" :> JNum) @@ ("output" :> JStr("ok")),
      ("input" :> JStr("hi")) @@ ("output" :> JNum) }
BothInOut == ("input" :> JStr("hi")) @@ ("output" :> JStr("ok"))

CompactedOpts ==
    { NoKeys, ("compacted" :> JNum), ("compacted" :> JList(<<JStr("c1")>>)) }

DetailedOpts ==
    { ("detailed" :> JList(<<Resp(<<PartBash>>)>>)),
      ("detailed" :> JList(<<Resp(<<PartLS>>)>>)) }

RecordObjects ==
    { io @@ c @@ BaseRecord : io \in {NoKeys, BothInOut}, c \in CompactedOpts }
    \cup { io @@ BaseRecord : io \in InOutOpts }
    \cup { BothInOut @@ c @@ d @@ BaseRecord : c \in {NoKeys}, d \in DetailedOpts }

OtherFmt(val) == [t |-> "doc", fmt |-> "other", val |-> val]

\* What a legacy X.json may hold.
LegacyTexts ==
    { OtherFmt(o) : o \in RecordObjects } \cup { Garbage, OtherFmt(JList(<<>>)) }

\* What an X.core.json may hold.
CoreTexts ==
    { DumpsDoc(o) : o \in RecordObjects }
    \cup { OtherFmt(c @@ BaseRecord) : c \in CompactedOpts }
    \cup { Garbage, DumpsDoc(JList(<<>>)) }

\* <<X.json, X.core.json>>
RecordPlacements ==
    { <<j, NoFile>> : j \in LegacyTexts }
    \cup { <<j, c>> : j \in {NoFile, OtherFmt(BothInOut @@ BaseRecord)}, c \in CoreTexts }

CanonDetailed ==
    JoinLines(<< DumpsLine(JStr("h2")), DumpsLine(JStr("o2")), DumpsLine(JList(<<>>)) >>)
OldSchemaDetailed ==
    [t |-> "lines",
     ls |-> << DumpsLine(JStr("h3")), BlankLine, DumpsLine(JStr("o3")),
               [t |-> "json", fmt |-> "other", val |-> Resp(<<PartBash>>)] >>]
OneLineDetailed == [t |-> "lines", ls |-> << DumpsLine(JStr("h4")) >>]
\* What the migration writes from OldSchemaDetailed.
MigratedOldSchema ==
    JoinLines(<< DumpsLine(JStr("h3")), DumpsLine(JStr("o3")),
                 DumpsLine(JList(<<ToolCall(PartBash)>>)) >>)

\* <<X.detailed.jsonl, X.detailed.json>>
DetailedPairs ==
    { <<NoFile, NoFile>>, <<CanonDetailed, NoFile>>, <<OldSchemaDetailed, NoFile>>,
      <<OneLineDetailed, NoFile>>, <<NoFile, OldSchemaDetailed>>,
      <<CanonDetailed, OldSchemaDetailed>>, <<CanonDetailed, OneLineDetailed>>,
      <<NoFile, OneLineDetailed>>, <<MigratedOldSchema, OldSchemaDetailed>> }

Sidecars ==
    { NoFile, OtherFmt(JList(<<JStr("summary")>>)), OtherFmt(JNum), Garbage }

FilesOf(j, c, d, ld, s) ==
    [k \in Kinds |->
        CASE k = "json" -> j
          [] k = "core" -> c
          [] k = "detailed" -> d
          [] k = "ldetailed" -> ld
          [] k = "compacted" -> s]

NoFiles == [k \in Kinds |-> NoFile]

DiskOf(files) == [p \in Paths |-> files[p.id][p.kind]]

InitMigCommon_NoFlags ==
    /\ pc = "idle"
    /\ queue = <<>>
    /\ changed = 0
    /\ skipped = 0
    /\ errors = 0
    /\ found = 0
    /\ exit_status = 0
    /\ run = 0
    /\ last = NoCall
    /\ hist = <<>>
    /\ crash = NoCrash

InitMigCommon ==
    /\ flags \in Flags
    /\ InitMigCommon_NoFlags

MigIdle ==
    /\ disk = [p \in Paths |-> NoFile]
    /\ flags = [delete_legacy_compacted |-> FALSE, force |-> FALSE, dry_run |-> FALSE]
    /\ InitMigCommon_NoFlags

\* One record, every combination of its five files.
InitMig ==
    /\ \E jc \in RecordPlacements, dl \in DetailedPairs, s \in Sidecars :
          disk = DiskOf([id \in RecordIds |->
                            IF id = "a" THEN FilesOf(jc[1], jc[2], dl[1], dl[2], s)
                            ELSE NoFiles])
    /\ InitMigCommon

\* Two records, each in one of a few typical states: a batch.
MigratedCore == DumpsDoc(("compacted" :> JList(<<>>)) @@ BaseRecord)
BatchFiles ==
    { NoFiles,
      FilesOf(OtherFmt(BothInOut @@ BaseRecord), NoFile, NoFile, NoFile, NoFile),
      FilesOf(OtherFmt(BothInOut @@ BaseRecord), NoFile, NoFile, NoFile, Garbage),
      FilesOf(Garbage, NoFile, NoFile, NoFile, NoFile),
      FilesOf(OtherFmt(("input" :> JNum) @@ BaseRecord), NoFile, NoFile, NoFile, NoFile),
      FilesOf(NoFile, MigratedCore, CanonDetailed, NoFile, NoFile),
      FilesOf(OtherFmt(BothInOut @@ BaseRecord), MigratedCore, NoFile, NoFile, NoFile) }

InitBatch ==
    /\ \E fa \in BatchFiles, fb \in BatchFiles :
          disk = DiskOf([id \in RecordIds |-> IF id = "a" THEN fa ELSE fb])
    /\ InitMigCommon


\* One legacy record with input, output and a trace: the parts of a response.
PartDictArgs == [t |-> "dict", part_kind |-> JStr("tool-call"), tool_name |-> JStr("read"),
                 args |-> [t |-> "dict", path |-> JStr("f")]]
PartNoArgs == [t |-> "dict", part_kind |-> JStr("tool-call"), tool_name |-> JStr("now")]
PartNumArgs == [t |-> "dict", part_kind |-> JStr("tool-call"), tool_name |-> JStr("bash"),
                args |-> JNum]
PartEmptyName == [t |-> "dict", part_kind |-> JStr("tool-call"), tool_name |-> JStr(""),
                  args |-> JStr("ls")]
PartNumName == [t |-> "dict", part_kind |-> JStr("tool-call"), tool_name |-> JNum,
                args |-> JStr("ls")]
PartText == [t |-> "dict", part_kind |-> JStr("text"), tool_name |-> JStr("bash"),
             args |-> JStr("ls")]
TraceParts ==
    { PartBash, PartDictArgs, PartNoArgs, PartNumArgs, PartEmptyName, PartNumName,
      PartText, JStr("p") }
\* A response of the trace holds at most this many parts.
MaxParts == 2
PartLists == UNION {[1..n -> TraceParts] : n \in 0..MaxParts}

\* A request entry, which holds a tool-call part as well.
Req == [t |-> "dict", kind |-> JStr("request"), parts |-> JList(<<PartBash>>)]
\* The entries before and after the response.
TraceBefore == { <<>>, <<Req>>, <<Resp(<<PartDictArgs>>)>> }
TraceAfter ==
    { <<>>, <<Resp(<<PartBash>>)>>, <<JStr("e")>>,
      <<[t |-> "dict", kind |-> JStr("response"), parts |-> JNum]>> }
Traces ==
    { JList(b \o <<Resp(parts)>> \o a) :
        b \in TraceBefore, parts \in PartLists, a \in TraceAfter } \cup { JNum }

InitTrace ==
    /\ \E v \in Traces :
          disk = DiskOf([id \in RecordIds |->
                    IF id = "a"
                    THEN FilesOf(OtherFmt(BothInOut @@ ("detailed" :> v) @@ BaseRecord),
                                 NoFile, NoFile, NoFile, NoFile)
                    ELSE NoFiles])
    /\ flags = [delete_legacy_compacted |-> FALSE, force |-> FALSE, dry_run |-> FALSE]
    /\ InitMigCommon_NoFlags

(***************************************************************************)
(* atomic_write_text step by step, beside a reader of the target path      *)
(*                                                                         *)
(* A text is a sequence of chunks; a name of the directory is linked to an *)
(* inode ("old" the target's inode before the call, "new" the one the      *)
(* temporary file gets) or to "none".  The buffered writer may flush any   *)
(* prefix of the text before close() flushes the rest.                     *)
(***************************************************************************)
Chunks == {"x", "y"}
\* Texts are at most this many chunks long.
MaxChunks == 2
Texts == UNION {[1..n -> Chunks] : n \in 0..MaxChunks}
Absent == <<"<absent>">>
Unread == <<"<unread>">>

AwIdle ==
    /\ awOld = Absent
    /\ awNew = <<>>
    /\ awParent = FALSE
    /\ awDirents = [target |-> "none", tmp |-> "none"]
    /\ awInodes = [i \in {"old", "new"} |-> <<>>]
    /\ awFd = "none"
    /\ awTmpDir = "none"
    /\ awPc = "idle"
    /\ rdFd = "none"
    /\ rdSeen = Unread

InitAw ==
    /\ awOld \in Texts \cup {Absent}
    /\ awNew \in Texts
    /\ awParent \in BOOLEAN
    /\ awOld # Absent => awParent
    /\ awDirents = [target |-> IF awOld = Absent THEN "none" ELSE "old", tmp |-> "none"]
    /\ awInodes = [i \in {"old", "new"} |-> IF i = "old" /\ awOld # Absent THEN awOld ELSE <<>>]
    /\ awFd = "none"
    /\ awTmpDir = "none"
    /\ awPc = "mkdir"
    /\ rdFd = "none"
    /\ rdSeen = Unread

\* Line 35: path.parent.mkdir(parents=True, exist_ok=True)
AwMkdir ==
    /\ awPc = "mkdir"
    /\ awParent' = TRUE
    /\ awPc' = "create"
    /\ UNCHANGED <<awOld, awNew, awDirents, awInodes, awFd, awTmpDir, rdFd, rdSeen>>
    /\ UNCHANGED <<migVars, nbVars, idVars, recVars, stVars>>

\* A variant that opens the target itself for writing, truncating it.
OpenForWrite_InPlace(dirents, inodes) ==
    [dirents |-> [dirents EXCEPT !.target = "new"],
     inodes |-> [inodes EXCEPT !["new"] = <<>>],
     fd |-> "new"]

\* Lines 37-44: a fresh, empty file under a temporary name.
OpenForWrite(dirents, inodes) ==
    [dirents |-> [dirents EXCEPT !.tmp = "new"],
     inodes |-> [inodes EXCEPT !["new"] = <<>>],
     fd |-> "new"]

Opened(o) ==
    /\ awDirents' = o.dirents
    /\ awInodes' = o.inodes
    /\ awFd' = o.fd

\* Lines 36-45.
AwCreateTemp ==
    /\ awPc = "create"
    /\ awTmpDir' = IF awParent THEN "parent" ELSE "system"
    /\ Opened(OpenForWrite(awDirents, awInodes))
    /\ awPc' = "write"
    /\ UNCHANGED <<awOld, awNew, awParent, rdFd, rdSeen>>
    /\ UNCHANGED <<migVars, nbVars, idVars, recVars, stVars>>

\* Line 46: tf.write(text); the buffer flushes one more chunk to the file.
AwFlush ==
    /\ awPc = "write"
    /\ Len(awInodes[awFd]) < Len(awNew)
    /\ awInodes' = [awInodes EXCEPT ![awFd] = SubSeq(awNew, 1, Len(awInodes[awFd]) + 1)]
    /\ UNCHANGED <<awOld, awNew, awParent, awDirents, awFd, awTmpDir, awPc, rdFd, rdSeen>>
    /\ UNCHANGED <<migVars, nbVars, idVars, recVars, stVars>>

\* Leaving the with block: the rest is flushed and the file closed.
AwClose ==
    /\ awPc = "write"
    /\ awInodes' = [awInodes EXCEPT ![awFd] = awNew]
    /\ awFd' = "none"
    /\ awPc' = "replace"
    /\ UNCHANGED <<awOld, awNew, awParent, awDirents, awTmpDir, rdFd, rdSeen>>
    /\ UNCHANGED <<migVars, nbVars, idVars, recVars, stVars>>

\* Line 47: tmp_path.replace(path), one rename.
AwReplace ==
    /\ awPc = "replace"
    /\ awDirents.tmp # "none"
    /\ awDirents' = [target |-> awDirents.tmp, tmp |-> "none"]
    /\ awPc' = "done"
    /\ UNCHANGED <<awOld, awNew, awParent, awInodes, awFd, awTmpDir, rdFd, rdSeen>>
    /\ UNCHANGED <<migVars, nbVars, idVars, recVars, stVars>>

\* A reader opens the target: the inode the name is linked to at that moment.
RdOpen ==
    /\ rdFd = "none"
    /\ rdFd' = awDirents.target
    /\ rdSeen' = IF awDirents.target = "none" THEN Absent ELSE rdSeen
    /\ UNCHANGED <<awOld, awNew, awParent, awDirents, awInodes, awFd, awTmpDir, awPc>>
    /\ UNCHANGED <<migVars, nbVars, idVars, recVars, stVars>>

\* The reader reads what its inode holds now, and closes.
RdRead ==
    /\ rdFd # "none"
    /\ rdSeen' = awInodes[rdFd]
    /\ rdFd' = "none"
    /\ UNCHANGED <<awOld, awNew, awParent, awDirents, awInodes, awFd, awTmpDir, awPc>>
    /\ UNCHANGED <<migVars, nbVars, idVars, recVars, stVars>>

NextAw == AwMkdir \/ AwCreateTemp \/ AwFlush \/ AwClose \/ AwReplace \/ RdOpen \/ RdRead

(***************************************************************************)
(* Neighborhood traversal: related(index, start, max_depth)                *)
(***************************************************************************)
NodeOrder == <<"A", "B", "C", "D">>
NodeSet == {NodeOrder[i] : i \in 1..Len(NodeOrder)}
\* max_depth is drawn from 0..MaxDepthBound.
MaxDepthBound == 3

\* The ids of S as a list, in NodeOrder.
ListOf(S) == SelectSeq(NodeOrder, LAMBDA n : n \in S)

\* How the two records of a pair i < j may be linked:
\*   "none"; "back": j lists i in parents and i lacks the back-link;
\*   "both": j lists i in parents, i lists j in children;
\*   "rev": i lists j in parents, j lists i in children.
LinkStates == {"none", "back", "both", "rev"}
NodePairs == {pr \in (1..Len(NodeOrder)) \X (1..Len(NodeOrder)) : pr[1] < pr[2]}

ParentsOf(ls, k) ==
    {NodeOrder[i] : i \in {i \in 1..Len(NodeOrder) :
        \/ i < k /\ ls[<<i, k>>] \in {"back", "both"}
        \/ k < i /\ ls[<<k, i>>] = "rev"}}
ChildrenOf(ls, k) ==
    {NodeOrder[j] : j \in {j \in 1..Len(NodeOrder) :
        \/ k < j /\ ls[<<k, j>>] = "both"
        \/ j < k /\ ls[<<j, k>>] = "rev"}}

IndexOf(ls, unindexed) ==
    [n \in NodeSet |->
        LET k == CHOOSE i \in 1..Len(NodeOrder) : NodeOrder[i] = n
        IN [t |-> "dict", indexed |-> n \notin unindexed,
            parents |-> ListOf(ParentsOf(ls, k)),
            children |-> ListOf(ChildrenOf(ls, k))]]

NbIdle ==
    /\ nbIndex = [n \in NodeSet |-> [t |-> "dict", indexed |-> FALSE, parents |-> <<>>, children |-> <<>>]]
    /\ nbStart = NodeOrder[1]
    /\ nbMaxDepth = 0
    /\ nbDepths = <<>>
    /\ nbQ = <<>>
    /\ nbEnq = [n \in NodeSet |-> 0]
    /\ nbPc = "idle"

\* Lines 61-62, on every index of the bounds.
InitNb ==
    /\ \E ls \in [NodePairs -> LinkStates], un \in {{}, {NodeOrder[Len(NodeOrder)]}} :
          nbIndex = IndexOf(ls, un)
    /\ nbStart \in {NodeOrder[1], NodeOrder[2]}
    /\ nbMaxDepth \in 0..MaxDepthBound
    /\ nbDepths = (nbStart :> 0)
    /\ nbQ = <<nbStart>>
    /\ nbEnq = [n \in NodeSet |-> IF n = nbStart THEN 1 ELSE 0]
    /\ nbPc = "loop"

\* Lines 47-55: None when the id is not indexed.
load_record(index, mid) == IF index[mid].indexed THEN index[mid] ELSE JNull

\* A variant that follows `children` only.
EdgesOf_ChildrenOnly(rec) == rec.children

\* Lines 74-75: the ids of `parents`, then those of `children`.
EdgesOf(rec) == rec.parents \o rec.children

\* A variant without the test of line 79 on ids already seen.
Visit_NoDepthCheck(st, nxt, d, max_depth) ==
    IF d + 1 > max_depth THEN st
    ELSE [depths |-> (nxt :> (d + 1)) @@ st.depths,
          q |-> Append(st.q, nxt),
          enq |-> [st.enq EXCEPT ![nxt] = @ + 1]]

\* Lines 76-83: one pass of the inner loop body, on st = [depths, q, enq].
Visit(st, nxt, d, max_depth) ==
    IF nxt \in DOMAIN st.depths /\ st.depths[nxt] <= d + 1 THEN st
    ELSE IF d + 1 > max_depth THEN st
    ELSE [depths |-> (nxt :> (d + 1)) @@ st.depths,
          q |-> Append(st.q, nxt),
          enq |-> [st.enq EXCEPT ![nxt] = @ + 1]]

RECURSIVE VisitAll(_, _, _, _)
VisitAll(st, edges, d, max_depth) ==
    IF edges = <<>> THEN st
    ELSE VisitAll(Visit(st, Head(edges), d, max_depth), Tail(edges), d, max_depth)

\* Lines 65-83: one iteration of the while loop, cur already popped.
Expand(st, cur, d, index, max_depth) ==
    IF d = max_depth THEN st
    ELSE IF IsNone(load_record(index, cur)) THEN st
    ELSE VisitAll(st, EdgesOf(load_record(index, cur)), d, max_depth)

NbAssign(st) ==
    /\ nbDepths' = st.depths
    /\ nbQ' = st.q
    /\ nbEnq' = st.enq

NbStep ==
    /\ nbPc = "loop"
    /\ nbQ # <<>>
    /\ NbAssign(Expand([depths |-> nbDepths, q |-> Tail(nbQ), enq |-> nbEnq],
                       Head(nbQ), nbDepths[Head(nbQ)], nbIndex, nbMaxDepth))
    /\ UNCHANGED <<nbIndex, nbStart, nbMaxDepth, nbPc>>
    /\ UNCHANGED <<migVars, awVars, idVars, recVars, stVars>>

\* Line 85.
NbReturn ==
    /\ nbPc = "loop"
    /\ nbQ = <<>>
    /\ nbPc' = "returned"
    /\ UNCHANGED <<nbIndex, nbStart, nbMaxDepth, nbDepths, nbQ, nbEnq>>
    /\ UNCHANGED <<migVars, awVars, idVars, recVars, stVars>>

NextNb == NbStep \/ NbReturn

(***************************************************************************)
(* Identifier scheme: memory_record_id_from_created_at                     *)
(*                                                                         *)
(* Numbers of 48 bits and more are kept as [hi, lo] = hi * 2^24 + lo with  *)
(* 0 <= lo < 2^24.  An instant is [hi, lo, us]: the millisecond [hi, lo]   *)
(* it falls in (the floor of its milliseconds since the epoch) and the     *)
(* microseconds 0..999 past the start of that millisecond.  The float      *)
(* product created_at.timestamp() * 1000 is taken as exact.  An id is the  *)
(* sequence of the character codes of its str.                             *)
(***************************************************************************)
Half == 2^24
\* The low halves 0..IdLoBound are enumerated.
IdLoBound == 64

Millis(hi, lo) == [hi |-> hi, lo |-> lo]
MillisLess(m, n) == m.hi < n.hi \/ (m.hi = n.hi /\ m.lo < n.lo)
PlusOne(m) == IF m.lo + 1 = Half THEN Millis(m.hi + 1, 0) ELSE Millis(m.hi, m.lo + 1)

\* floor(created_at * 1000)
FloorMillis(ts) == Millis(ts.hi, ts.lo)

\* Line 34: int(created_at.timestamp() * 1000); int() rounds toward zero.
IntMillis(ts) ==
    IF ts.hi < 0 /\ ts.us > 0 THEN PlusOne(FloorMillis(ts)) ELSE FloorMillis(ts)

\* Line 35: millis < 0 or millis >= 1 << 48
OutOfRange(m) == m.hi < 0 \/ m.hi >= Half

\* The three big-endian bytes of a 24-bit number.
Bytes3(v) == << v \div 65536, (v \div 256) % 256, v % 256 >>

\* A variant with the bytes in little-endian order.
to_bytes_LittleEndian(m) ==
    << m.lo % 256, (m.lo \div 256) % 256, m.lo \div 65536,
       m.hi % 256, (m.hi \div 256) % 256, m.hi \div 65536 >>

\* Line 37: millis.to_bytes(6, byteorder="big", signed=False)
to_bytes(m) == Bytes3(m.hi) \o Bytes3(m.lo)

\* The URL-safe alphabet A-Z a-z 0-9 - _ as character codes.
B64Char(d) ==
    IF d < 26 THEN 65 + d
    ELSE IF d < 52 THEN 97 + (d - 26)
    ELSE IF d < 62 THEN 48 + (d - 52)
    ELSE IF d = 62 THEN 45
    ELSE 95

\* Three bytes as four characters.
Encode3(b1, b2, b3) ==
    << B64Char(b1 \div 4),
       B64Char((b1 % 4) * 16 + b2 \div 16),
       B64Char((b2 % 16) * 4 + b3 \div 64),
       B64Char(b3 % 64) >>

\* Line 38: base64.urlsafe_b64encode(raw).decode("ascii"), for 6 bytes, so
\* that no "=" is appended.
urlsafe_b64encode(raw) ==
    Encode3(raw[1], raw[2], raw[3]) \o Encode3(raw[4], raw[5], raw[6])

EncodeMillis(m) == urlsafe_b64encode(to_bytes(m))

IdOf(m) ==
    IF OutOfRange(m) THEN [raised |-> TRUE, millis |-> m, id |-> <<>>]
    ELSE [raised |-> FALSE, millis |-> m, id |-> EncodeMillis(m)]

\* Lines 31-38.
memory_record_id_from_created_at(created_at) == IdOf(IntMillis(created_at))

\* str comparison, by code point.
RECURSIVE StrLess(_, _)
StrLess(s, t) ==
    IF t = <<>> THEN FALSE
    ELSE IF s = <<>> THEN TRUE
    ELSE IF Head(s) # Head(t) THEN Head(s) < Head(t)
    ELSE StrLess(Tail(s), Tail(t))

NoResult == [raised |-> FALSE, millis |-> Millis(0, 0), id |-> <<>>]

IdIdle ==
    /\ tsA = [hi |-> 0, lo |-> 0, us |-> 0]
    /\ tsB = [hi |-> 0, lo |-> 0, us |-> 0]
    /\ resA = NoResult
    /\ resB = NoResult
    /\ idPc = "idle"

InitId ==
    /\ tsA \in [hi : {-1, 0, Half - 1, Half}, lo : (0..IdLoBound) \cup {Half - 1},
                us : {0, 500}]
    /\ tsB \in [hi : {0, Half - 1}, lo : 0..IdLoBound, us : {0}]
    /\ resA = NoResult
    /\ resB = NoResult
    /\ idPc = "input"

DeriveIds ==
    /\ idPc = "input"
    /\ resA' = memory_record_id_from_created_at(tsA)
    /\ resB' = memory_record_id_from_created_at(tsB)
    /\ idPc' = "derived"
    /\ UNCHANGED <<tsA, tsB>>
    /\ UNCHANGED <<migVars, awVars, nbVars, recVars, stVars>>

NextId == DeriveIds

(***************************************************************************)
(* is_memory_record_id and the MemoryRecord validator                      *)
(*                                                                         *)
(* A str is the sequence of its character codes.  The strings of the model *)
(* are over the characters "0" (a hex digit), "g" (of the base64url        *)
(* alphabet, no hex digit), "-", "_", "{", "}" and " ".                    *)
(***************************************************************************)
ValChars == {48, 103, 45, 95, 123, 125, 32}

\* Length of a millis id: the {8} of _B64URL_8_RE.
B64IdLen == 8
\* Hex digits of a UUID (uuid.UUID: len(hex) != 32).
UuidHexLen == 32
\* The runs before and after the middle run of a string are 0..MaxEdgeRun long.
MaxEdgeRun == 1

Rep(c, n) == [i \in 1..n |-> c]

\* str.strip(chars)
RECURSIVE StripChars(_, _)
StripChars(s, chars) ==
    IF s = <<>> THEN s
    ELSE IF Head(s) \in chars THEN StripChars(Tail(s), chars)
    ELSE IF s[Len(s)] \in chars THEN StripChars(SubSeq(s, 1, Len(s) - 1), chars)
    ELSE s

\* str.replace(c, "")
RemoveChar(s, c) == SelectSeq(s, LAMBDA x : x # c)

IsHexDigit(c) == (48 <= c /\ c <= 57) \/ (65 <= c /\ c <= 70) \/ (97 <= c /\ c <= 102)

\* int(hex, 16) raises ValueError, for a str without sign or "0x": blanks
\* at both ends are dropped, one "_" may stand between two digits.
IntBase16Raises(s) ==
    \/ StripChars(s, {32}) = <<>>
    \/ \E i \in 1..Len(StripChars(s, {32})) :
          /\ ~IsHexDigit(StripChars(s, {32})[i])
          /\ ~(/\ StripChars(s, {32})[i] = 95
               /\ 1 < i
               /\ i < Len(StripChars(s, {32}))
               /\ IsHexDigit(StripChars(s, {32})[i - 1])
               /\ IsHexDigit(StripChars(s, {32})[i + 1]))

\* The hex of uuid.UUID(value): braces stripped, then hyphens removed (no
\* string of the model holds "urn:" or "uuid:").
UuidHex(value) == RemoveChar(StripChars(value, {123, 125}), 45)

\* Line 45: UUID(value) raises ValueError.
UUIDRaises(value) == Len(UuidHex(value)) # UuidHexLen \/ IntBase16Raises(UuidHex(value))

InB64UrlAlphabet(c) ==
    \/ (65 <= c /\ c <= 90)
    \/ (97 <= c /\ c <= 122)
    \/ (48 <= c /\ c <= 57)
    \/ c = 95
    \/ c = 45

\* Line 50: _B64URL_8_RE.fullmatch(value)
B64URL_8_RE_fullmatch(value) ==
    Len(value) = B64IdLen /\ \A i \in 1..Len(value) : InB64UrlAlphabet(value[i])

\* Line 53: base64.urlsafe_b64decode(value): characters outside the alphabet
\* are discarded, a length that is no multiple of 4 raises binascii.Error,
\* every 4 characters give 3 bytes (no string of the model holds "=").
B64Kept(value) == SelectSeq(value, InB64UrlAlphabet)
urlsafe_b64decode_Raises(value) == Len(B64Kept(value)) % 4 # 0
urlsafe_b64decode_Len(value) == (Len(B64Kept(value)) \div 4) * 3

\* A variant without the UUID branch.
is_memory_record_id_NoUuid(value) ==
    /\ B64URL_8_RE_fullmatch(value)
    /\ ~urlsafe_b64decode_Raises(value)
    /\ urlsafe_b64decode_Len(value) = 6

\* Lines 41-56: [raised, ret]; no path of the function raises on a str.
is_memory_record_id(value) ==
    IF ~UUIDRaises(value) THEN TRUE
    ELSE IF ~B64URL_8_RE_fullmatch(value) THEN FALSE
    ELSE IF urlsafe_b64decode_Raises(value) THEN FALSE
    ELSE urlsafe_b64decode_Len(value) = 6

\* `bad` of lines 77-79 is non-empty.
HasBadId(ids) == \E i \in 1..Len(ids) : ~is_memory_record_id(ids[i])

\* A variant that does not look at `children`.
LinksRaise_ParentsOnly(parents, children) == HasBadId(parents)

\* Lines 76-79.
LinksRaise(parents, children) == HasBadId(parents) \/ HasBadId(children)

\* Lines 71-72: the id after the first step, or the ValueError of the
\* derivation.
FinalId(id_, created_at) ==
    IF id_ = <<>> THEN memory_record_id_from_created_at(created_at)
    ELSE [raised |-> FALSE, id |-> id_]

\* MemoryRecord(id_=.., created_at=.., parents=.., children=..), the other
\* fields being well-typed: [raised, id_, parents, children].  A ValueError
\* of the validator reaches the caller as pydantic's ValidationError.
Construct(id_, created_at, parents, children) ==
    IF FinalId(id_, created_at).raised
       \/ ~is_memory_record_id(FinalId(id_, created_at).id)
       \/ LinksRaise(parents, children)
    THEN [raised |-> TRUE, id_ |-> <<>>, parents |-> <<>>, children |-> <<>>]
    ELSE [raised |-> FALSE, id_ |-> FinalId(id_, created_at).id,
          parents |-> parents, children |-> children]

\* Strings of three runs.
RunStrings ==
    {Rep(c[1], n[1]) \o Rep(c[2], n[2]) \o Rep(c[3], n[3]) :
        c \in ValChars \X ValChars \X ValChars,
        n \in (0..MaxEdgeRun)
              \X {0, B64IdLen - 2, B64IdLen - 1, B64IdLen, B64IdLen + 1,
                  UuidHexLen - 1, UuidHexLen, UuidHexLen + 1}
              \X (0..MaxEdgeRun)}

\* "", a millis id, a UUID with a hyphen, and a string that is no id.
SomeIds ==
    { <<>>,
      Rep(48, B64IdLen - 1) \o <<103>>,
      Rep(48, B64IdLen) \o <<45>> \o Rep(48, UuidHexLen - B64IdLen),
      Rep(103, 3) \o <<45>> \o Rep(103, 6) }

\* Lists of at most this many links.
MaxLinks == 2
LinkLists == UNION {[1..n -> SomeIds] : n \in 0..MaxLinks}

\* created_at: the epoch, a later instant, an instant before the epoch.
SomeInstants ==
    { [hi |-> 0, lo |-> 0, us |-> 0],
      [hi |-> 105, lo |-> 62, us |-> 500],
      [hi |-> -1, lo |-> Half - 1, us |-> 0] }

NoRecord == [raised |-> FALSE, id_ |-> <<>>, parents |-> <<>>, children |-> <<>>]

RecIdle ==
    /\ recIn = [id_ |-> <<>>, created_at |-> [hi |-> 0, lo |-> 0, us |-> 0],
                parents |-> <<>>, children |-> <<>>]
    /\ recOut = NoRecord
    /\ valRes = "none"
    /\ recPc = "idle"

InitRec ==
    /\ \/ recIn \in [id_ : RunStrings, created_at : {[hi |-> 0, lo |-> 0, us |-> 0]},
                     parents : {<<>>}, children : {<<>>}]
       \/ recIn \in [id_ : SomeIds, created_at : SomeInstants,
                     parents : LinkLists, children : LinkLists]
    /\ recOut = NoRecord
    /\ valRes = "none"
    /\ recPc = "input"

\* A call is_memory_record_id(id_).
CallIsId ==
    /\ valRes = "none"
    /\ recPc # "idle"
    /\ valRes' = IF is_memory_record_id(recIn.id_) THEN "true" ELSE "false"
    /\ UNCHANGED <<recIn, recOut, recPc>>
    /\ UNCHANGED <<migVars, awVars, nbVars, idVars, stVars>>

\* A call MemoryRecord(...).
CallConstruct ==
    /\ recPc = "input"
    /\ recOut' = Construct(recIn.id_, recIn.created_at, recIn.parents, recIn.children)
    /\ recPc' = "constructed"
    /\ UNCHANGED <<recIn, valRes>>
    /\ UNCHANGED <<migVars, awVars, nbVars, idVars, stVars>>

NextRec == CallIsId \/ CallConstruct

(***************************************************************************)
(* Store append (MemoryStore.append)                                       *)
(*                                                                         *)
(* store.py declares the protocol only; append is modelled from its        *)
(* documented contract.  A store is the sequence of its records in append  *)
(* order, each [id_, parents, children].                                   *)
(***************************************************************************)
StoreIds == {"P", "Q", "X"}
\* At most this many append calls are made.
MaxAppends == 3

\* The parents lists and the children lists a record is constructed with.
ParentLists == {<<>>, <<"P">>, <<"Q">>, <<"P", "Q">>, <<"Q", "P">>, <<"P", "P">>}
ChildLists == {<<>>, <<"X">>}
StoreRecords == [id_ : StoreIds, parents : ParentLists, children : ChildLists]

StoredIds(store) == {store[i].id_ : i \in 1..Len(store)}
InSeq(x, s) == \E i \in 1..Len(s) : s[i] = x

\* A variant that appends the back-link even when it is already listed.
AddChild_Always(children, id_) == Append(children, id_)

\* "appended if not already present"
AddChild(children, id_) == IF InSeq(id_, children) THEN children ELSE Append(children, id_)

\* The stored records after the back-links of `record` are written.
WithBackLinks(store, record) ==
    [i \in 1..Len(store) |->
        IF InSeq(store[i].id_, record.parents)
        THEN [store[i] EXCEPT !.children = AddChild(@, record.id_)]
        ELSE store[i]]

\* append(record): [raised, store]; an id already stored is refused with
\* nothing written.
append(store, record) ==
    IF record.id_ \in StoredIds(store) THEN [raised |-> TRUE, store |-> store]
    ELSE [raised |-> FALSE, store |-> Append(WithBackLinks(store, record), record)]

NoAppend == [called |-> FALSE, raised |-> FALSE, before |-> <<>>,
             record |-> [id_ |-> "P", parents |-> <<>>, children |-> <<>>]]

StIdle ==
    /\ stStore = <<>>
    /\ stCalls = 0
    /\ stLast = NoAppend

InitSt == StIdle

StAppend ==
    /\ stCalls < MaxAppends
    /\ \E record \in StoreRecords :
          /\ stStore' = append(stStore, record).store
          /\ stLast' = [called |-> TRUE, raised |-> append(stStore, record).raised,
                        before |-> stStore, record |-> record]
    /\ stCalls' = stCalls + 1
    /\ UNCHANGED <<migVars, awVars, nbVars, idVars, recVars>>

NextSt == StAppend

(***************************************************************************)
(* Specifications                                                          *)
(***************************************************************************)
\* Batch runs over one record's files in every combination.
InitRecord == InitMig /\ AwIdle /\ NbIdle /\ IdIdle /\ RecIdle /\ StIdle
Spec == InitRecord /\ [][NextMig]_vars
\* Batch runs over two records.
InitRecords == InitBatch /\ AwIdle /\ NbIdle /\ IdIdle /\ RecIdle /\ StIdle
SpecBatch == InitRecords /\ [][NextMig]_vars
\* One atomic_write_text call and a reader.
InitAtomic == InitAw /\ MigIdle /\ NbIdle /\ IdIdle /\ RecIdle /\ StIdle
SpecAtomic == InitAtomic /\ [][NextAw]_vars
\* One related() call.
InitRelated == InitNb /\ MigIdle /\ AwIdle /\ IdIdle /\ RecIdle /\ StIdle
SpecRelated == InitRelated /\ [][NextNb]_vars
\* The same call, which keeps running until it returns.
SpecRelatedFair == InitRelated /\ [][NextNb]_vars /\ WF_vars(NextNb)
\* Id derivation of two instants.
InitIds == InitId /\ MigIdle /\ AwIdle /\ NbIdle /\ RecIdle /\ StIdle
SpecId == InitIds /\ [][NextId]_vars
\* Batch runs of which one may be interrupted, and the runs after it.
InitInterrupted == InitMig /\ AwIdle /\ NbIdle /\ IdIdle /\ RecIdle /\ StIdle
SpecCrash == InitInterrupted /\ [][NextCrash]_vars
\* Batch runs over one legacy record with a trace.
InitExtract == InitTrace /\ AwIdle /\ NbIdle /\ IdIdle /\ RecIdle /\ StIdle
SpecExtract == InitExtract /\ [][NextMig]_vars
\* is_memory_record_id and MemoryRecord construction on one input.
InitValidate == InitRec /\ MigIdle /\ AwIdle /\ NbIdle /\ IdIdle /\ StIdle
SpecRecord == InitValidate /\ [][NextRec]_vars
\* A sequence of append calls on an empty store.
InitStore == InitSt /\ MigIdle /\ AwIdle /\ NbIdle /\ IdIdle /\ RecIdle
SpecStore == InitStore /\ [][NextSt]_vars

(***************************************************************************)
(* Properties of the migration                                             *)
(***************************************************************************)
CanonicalFiles(d) == [p \in {q \in Paths : q.kind \in {"core", "detailed"}} |-> d[p]]

\* C1: after one complete non-dry-run batch, a second non-dry-run batch over
\* the untouched directory with the same flags reports zero changed files,
\* and every X.core.json and X.detailed.jsonl has the same bytes after the
\* first and after the second run.
C1_Idempotent ==
    (Len(hist) >= 2 /\ ~flags.dry_run) =>
        /\ hist[2].changed = 0
        /\ CanonicalFiles(hist[2].disk) = CanonicalFiles(hist[1].disk)

\* The record the last call read, and the three files it works on.
LastRecord == Loads(last.before[last.path])
LastCore == disk[core_path_for_record_path(last.path)]
LastDetailed == disk[detailed_path_for_record_path(last.path)]
LastSidecarBefore == last.before[legacy_compacted_path_for_record_path(last.path)]

IsStrList(v) == IsList(v) /\ \A i \in 1..Len(v.xs) : IsStr(v.xs[i])
IsToolCall(v) == IsDict(v) /\ DOMAIN v = {"t", "tool_name", "args"}

\* The call the claim C3 is about: it returned, not in dry-run mode, for a
\* record whose input and output are strings.
C3_Case ==
    /\ last.called
    /\ ~last.raised
    /\ ~flags.dry_run
    /\ IsStr(Get(LastRecord, "input"))
    /\ IsStr(Get(LastRecord, "output"))

C3_ExpectedCompacted ==
    IF IsStrList(Get(LastRecord, "compacted")) THEN Get(LastRecord, "compacted")
    ELSE IF Exists(LastSidecarBefore) /\ IsStrList(Loads(LastSidecarBefore))
    THEN Loads(LastSidecarBefore)
    ELSE JList(<<>>)

\* C3: after a successful non-dry-run call on a record with string input and
\* output, X.core.json holds every original field except input, output and
\* detailed, plus compacted (the in-file array of strings, else the sidecar's
\* array, else the empty array), and X.detailed.jsonl holds exactly 3 lines:
\* the encoded input, the encoded output and a JSON array of tool calls.
C3_SplitLayout ==
    C3_Case =>
        /\ LastCore.t = "doc"
        /\ DOMAIN LastCore.val =
              (DOMAIN LastRecord \ {"input", "output", "detailed"}) \cup {"compacted"}
        /\ \A k \in DOMAIN LastRecord \ {"input", "output", "detailed", "compacted"} :
              LastCore.val[k] = LastRecord[k]
        /\ LastCore.val["compacted"] = C3_ExpectedCompacted
        /\ LastDetailed.t = "lines"
        /\ Len(LastDetailed.ls) = 3
        /\ LastDetailed.ls[1] = DumpsLine(Get(LastRecord, "input"))
        /\ LastDetailed.ls[2] = DumpsLine(Get(LastRecord, "output"))
        /\ LastDetailed.ls[3].t = "json"
        /\ IsList(LastDetailed.ls[3].val)
        /\ \A i \in 1..Len(LastDetailed.ls[3].val.xs) :
              IsToolCall(LastDetailed.ls[3].val.xs[i])

\* The spec's example: input "hi", output "ok", no compacted in the file and
\* a sidecar holding ["summary"], migrated with one tool call extracted.
C3_Witness ==
    /\ C3_Case
    /\ last.ret
    /\ "compacted" \notin DOMAIN LastRecord
    /\ Exists(LastSidecarBefore)
    /\ LastCore.val["compacted"] = JList(<<JStr("summary")>>)
    /\ LastDetailed.ls[1].val = JStr("hi")

\* C4: a dry-run call creates, modifies and deletes no file, and returns
\* the flag (or raises as) a non-dry-run call from the same files would.
C4_DryRunFrame ==
    (last.called /\ flags.dry_run) =>
        /\ disk = last.before
        /\ LET real == migrate_record_file(last.before, last.path,
                                           flags.delete_legacy_compacted,
                                           flags.force, FALSE)
           IN /\ real.raised = last.raised
              /\ real.ret = last.ret

\* A dry-run call that reports a change a real call would write.
C4_Witness ==
    /\ last.called
    /\ flags.dry_run
    /\ ~last.raised
    /\ last.ret
    /\ migrate_record_file(last.before, last.path, flags.delete_legacy_compacted,
                           flags.force, FALSE).disk # last.before

\* C5: an error in one file never aborts the batch: every discovered file
\* is attempted and counted in exactly one of changed, skipped, errors, and
\* the exit status is nonzero exactly when errors >= 1.
C5_BatchCounts ==
    /\ pc \in {"loop", "done"} => changed + skipped + errors + Len(queue) = found
    /\ pc = "done" =>
          /\ queue = <<>>
          /\ changed + skipped + errors = found
          /\ (exit_status # 0) <=> (errors >= 1)

\* A finished batch whose first file raised and whose second was migrated.
C5_Witness ==
    /\ pc = "done"
    /\ found = Cardinality(RecordIds)
    /\ errors = 1
    /\ changed = 1
    /\ last.path.id = IdOrder[Len(IdOrder)]
    /\ ~last.raised
    /\ exit_status = 1

\* C6: with the force flag set, a non-dry-run call rewrites the core and
\* detailed files and reports the file as changed even when the files on
\* disk already equal the generated content.
C6_ForceRewrites ==
    (last.called /\ ~last.raised /\ flags.force /\ ~flags.dry_run) => last.ret

(***************************************************************************)
(* Properties of atomic_write_text                                         *)
(***************************************************************************)
\* What a reader opening and reading the target now would get.
C2_TargetNow ==
    IF awDirents.target = "none" THEN Absent ELSE awInodes[awDirents.target]

\* C2: at every step of atomic_write_text a reader of the target path gets
\* the complete previous text (or the file's absence) or the complete new
\* text, never a part of it; the new text goes to a temporary file of the
\* target's directory first, and the target changes only by the rename: until
\* the rename the path holds the previous text, after it the new one.
C2_AtomicForReaders ==
    /\ rdSeen \in {Unread, awOld, awNew}
    /\ C2_TargetNow \in {awOld, awNew}
    /\ awTmpDir \in {"none", "parent"}
    /\ awPc \in {"mkdir", "create", "write", "replace"} => C2_TargetNow = awOld
    /\ awPc = "done" =>
          /\ C2_TargetNow = awNew
          /\ awDirents.tmp = "none"
          /\ awTmpDir = "parent"

\* A reader has read the previous text while the temporary file holds a
\* proper, non-empty part of a different new text.
C2_Witness ==
    /\ awPc = "write"
    /\ awOld # Absent
    /\ awOld # awNew
    /\ rdSeen = awOld
    /\ Len(awInodes["new"]) > 0
    /\ Len(awInodes["new"]) < Len(awNew)

(***************************************************************************)
(* Properties of related()                                                 *)
(***************************************************************************)
SeqRange(s) == {s[i] : i \in 1..Len(s)}

\* The ids the indexed record of n lists in parents or children.
C7_Listed(n) ==
    IF nbIndex[n].indexed
    THEN SeqRange(nbIndex[n].parents) \cup SeqRange(nbIndex[n].children)
    ELSE {}

\* Adjacency whenever either record lists the other.
C7_Adjacent(n) == C7_Listed(n) \cup {m \in NodeSet : n \in C7_Listed(m)}

RECURSIVE C7_UndirectedBall(_, _)
C7_UndirectedBall(S, k) ==
    IF k = 0 THEN S
    ELSE C7_UndirectedBall(S \cup UNION {C7_Adjacent(n) : n \in S}, k - 1)

RECURSIVE C7_ListedBall(_, _)
C7_ListedBall(S, k) ==
    IF k = 0 THEN S
    ELSE C7_ListedBall(S \cup UNION {C7_Listed(n) : n \in S}, k - 1)

\* C7, as stated: related(index, start, D) returns exactly the ids at hop
\* distance at most D from start in the undirected graph where two ids are
\* adjacent whenever either one's indexed record lists the other; start is
\* in the result at depth 0.
C7_UndirectedHops ==
    nbPc = "returned" =>
        /\ DOMAIN nbDepths = C7_UndirectedBall({nbStart}, nbMaxDepth)
        /\ nbDepths[nbStart] = 0

\* C7, amended: related(index, start, D) returns exactly the ids reachable
\* from start in at most D steps, each step going from an id to an id that
\* its own indexed record lists in parents or children; every id is returned
\* with the least such number of steps, start with 0.
C7_ListedHops ==
    nbPc = "returned" =>
        /\ DOMAIN nbDepths = C7_ListedBall({nbStart}, nbMaxDepth)
        /\ nbDepths[nbStart] = 0
        /\ \A n \in DOMAIN nbDepths :
              /\ n \in C7_ListedBall({nbStart}, nbDepths[n])
              /\ nbDepths[n] > 0 => n \notin C7_ListedBall({nbStart}, nbDepths[n] - 1)

\* A call has returned several ids on an index where a link listed on one
\* side only puts an id within D undirected hops that no listed step reaches.
C7_Witness ==
    /\ nbPc = "returned"
    /\ Cardinality(DOMAIN nbDepths) > 1
    /\ C7_UndirectedBall({nbStart}, nbMaxDepth) # C7_ListedBall({nbStart}, nbMaxDepth)

\* The least number of listed steps from the start to n, for n within k steps.
RECURSIVE C19_Layer(_, _)
C19_Layer(n, k) ==
    IF k = 0 \/ n \notin C7_ListedBall({nbStart}, k - 1) THEN k
    ELSE C19_Layer(n, k - 1)

C19_DepthsKept ==
    \A n \in DOMAIN nbDepths : n \in DOMAIN nbDepths' /\ nbDepths'[n] = nbDepths[n]

\* C19: the traversal terminates on every index, with cycles of links or
\* without; each id is enqueued at most once; the depth recorded for an id
\* never changes once assigned, and it is the id's minimum BFS layer from
\* the start.
C19_Terminates ==
    /\ <>(nbPc = "returned")
    /\ [](\A n \in NodeSet : nbEnq[n] <= 1)
    /\ [][C19_DepthsKept]_vars
    /\ [](\A n \in DOMAIN nbDepths :
            /\ n \in C7_ListedBall({nbStart}, nbDepths[n])
            /\ nbDepths[n] = C19_Layer(n, nbDepths[n]))

\* A call has returned on an index with a cycle of three links through the
\* start, every id of the cycle enqueued once.
C19_Witness ==
    /\ nbPc = "returned"
    /\ \E n, m \in DOMAIN nbDepths \ {nbStart} :
          /\ n # m
          /\ n \in C7_Listed(nbStart)
          /\ m \in C7_Listed(n)
          /\ nbStart \in C7_Listed(m)
          /\ nbEnq[n] = 1 /\ nbEnq[m] = 1 /\ nbEnq[nbStart] = 1

(***************************************************************************)
(* Properties of the identifier scheme                                     *)
(***************************************************************************)
\* C8: for two in-range milliseconds m1 < m2 (instants on a millisecond
\* boundary) the id of m1 sorts before the id of m2 as a string.
C8_SortChronological ==
    (idPc = "derived" /\ tsA.us = 0 /\ tsB.us = 0 /\ ~resA.raised /\ ~resB.raised) =>
        (MillisLess(resA.millis, resB.millis) => StrLess(resA.id, resB.id))

\* C9: millis is the floor of created_at in milliseconds; the call raises
\* if and only if that floor is < 0 or >= 2^48, and returns its encoding
\* otherwise.
C9_FloorAndRange ==
    idPc = "derived" =>
        /\ resA.raised <=> OutOfRange(FloorMillis(tsA))
        /\ ~resA.raised => resA.id = EncodeMillis(FloorMillis(tsA))

B64Chars == {B64Char(d) : d \in 0..63}
B64Index(c) == CHOOSE d \in 0..63 : B64Char(d) = c
\* Four characters read as a big-endian 24-bit number.
Decode24(s) ==
    ((B64Index(s[1]) * 64 + B64Index(s[2])) * 64 + B64Index(s[3])) * 64 + B64Index(s[4])
C10_Decode(id) == Millis(Decode24(SubSeq(id, 1, 4)), Decode24(SubSeq(id, 5, 8)))

C10_RoundTripOf(r) ==
    /\ r.raised <=> OutOfRange(r.millis)
    /\ ~r.raised =>
          /\ Len(r.id) = 8
          /\ \A i \in 1..Len(r.id) : r.id[i] \in B64Chars
          /\ C10_Decode(r.id) = r.millis
          /\ r.millis = Millis(0, 0) => r.id = [i \in 1..8 |-> 65]

C11_EightCharsOfSixBytes(s) ==
    /\ Len(s) = 8
    /\ \A i \in 1..Len(s) : s[i] \in B64Chars
    /\ (Len(s) * 6) % 8 = 0
    /\ (Len(s) * 6) \div 8 = 6

\* The validation rule: a UUID, or a millis id.
C11_ValidId(s) == ~UUIDRaises(s) \/ C11_EightCharsOfSixBytes(s)

\* C11: is_memory_record_id(s) returns true if and only if s parses as a
\* UUID or s is exactly 8 characters of the base64url alphabet that decode
\* to exactly 6 bytes; on every str it returns a boolean.
C11_IsIdIff ==
    valRes # "none" =>
        /\ valRes \in {"true", "false"}
        /\ (valRes = "true") <=> C11_ValidId(recIn.id_)

\* A UUID written in braces has been accepted.
C11_Witness ==
    /\ valRes = "true"
    /\ Len(recIn.id_) = UuidHexLen + 2
    /\ recIn.id_[1] = 123

C12_AllValid(ids) == \A i \in 1..Len(ids) : C11_ValidId(ids[i])

\* C12: construction succeeds if and only if the final id (the given id
\* when non-empty, else the id derived from created_at) is valid and every
\* id of parents and children is valid; a record that is constructed holds
\* the final id and the given lists, unchanged.
C12_ConstructIff ==
    recPc = "constructed" =>
        LET derived == memory_record_id_from_created_at(recIn.created_at)
            has_final == recIn.id_ # <<>> \/ ~derived.raised
            final == IF recIn.id_ # <<>> THEN recIn.id_ ELSE derived.id
        IN /\ ~recOut.raised <=>
                 /\ has_final
                 /\ C11_ValidId(final)
                 /\ C12_AllValid(recIn.parents)
                 /\ C12_AllValid(recIn.children)
           /\ ~recOut.raised =>
                 /\ recOut.id_ = final
                 /\ recOut.parents = recIn.parents
                 /\ recOut.children = recIn.children

\* A record given no id, two parents and a child has been constructed with
\* the derived id.
C12_Witness ==
    /\ recPc = "constructed"
    /\ ~recOut.raised
    /\ recIn.id_ = <<>>
    /\ Len(recOut.id_) = B64IdLen
    /\ Len(recOut.parents) = 2
    /\ Len(recOut.children) = 1

(***************************************************************************)
(* Properties of the store's append                                        *)
(***************************************************************************)
C13_Count(x, s) == Cardinality({i \in 1..Len(s) : s[i] = x})
C13_Parents == {i \in 1..Len(stLast.before) : InSeq(stLast.before[i].id_, stLast.record.parents)}

\* C13, as stated: after append(record) returns, every already-stored
\* record P whose id is in record.parents has record.id in P.children
\* exactly once, placed after P's earlier children.
C13_BackLinkLast ==
    (stLast.called /\ ~stLast.raised) =>
        \A i \in C13_Parents :
            /\ C13_Count(stLast.record.id_, stStore[i].children) = 1
            /\ stStore[i].children = Append(stLast.before[i].children, stLast.record.id_)

\* C13, amended: after append(record) returns, every already-stored record
\* P whose id is in record.parents lists record.id in P.children; when P
\* did not list it before the call it is listed exactly once, as the last
\* child after P's earlier children, and when P already listed it
\* P.children is as before; no other stored record changes.
C13_BackLinkKept ==
    (stLast.called /\ ~stLast.raised) =>
        /\ Len(stStore) = Len(stLast.before) + 1
        /\ stStore[Len(stStore)] = stLast.record
        /\ \A i \in 1..Len(stLast.before) :
              IF i \notin C13_Parents THEN stStore[i] = stLast.before[i]
              ELSE /\ InSeq(stLast.record.id_, stStore[i].children)
                   /\ [stStore[i] EXCEPT !.children = stLast.before[i].children]
                         = stLast.before[i]
                   /\ IF InSeq(stLast.record.id_, stLast.before[i].children)
                      THEN stStore[i].children = stLast.before[i].children
                      ELSE /\ stStore[i].children =
                                 Append(stLast.before[i].children, stLast.record.id_)
                           /\ C13_Count(stLast.record.id_, stStore[i].children) = 1

\* Two records sharing the parent P have been appended after it, and P
\* lists them in append order.
C13_Witness ==
    /\ stLast.called
    /\ ~stLast.raised
    /\ Len(stStore) = 3
    /\ stStore[1].id_ = "P"
    /\ stStore[1].children = <<stStore[2].id_, stStore[3].id_>>
    /\ InSeq("P", stStore[2].parents)
    /\ InSeq("P", stStore[3].parents)

(***************************************************************************)
(* Properties of the discovery and of the deletions of the migration       *)
(***************************************************************************)
\* The paths named *.json: every kind but X.detailed.jsonl.
C14_NamedJson(p) == p.kind \in {"json", "core", "ldetailed", "compacted"}

C14_Expected(d) ==
    {p \in Paths :
        /\ Exists(d[p])
        /\ C14_NamedJson(p)
        /\ p.kind # "ldetailed"
        /\ p.kind # "compacted"
        /\ ~(p.kind = "json" /\ Exists(d[PathOf(p.id, "core")]))}

\* C14: the files a run visits are exactly the existing *.json files that
\* are neither *.detailed.json nor *.compacted.json nor a bare X.json whose
\* X.core.json exists, each once (checked where the list has just been
\* built and no file has been visited yet).
C14_Discovery ==
    (pc = "loop" /\ Len(queue) = found) =>
        /\ {queue[i] : i \in 1..Len(queue)} = C14_Expected(disk)
        /\ Len(queue) = Cardinality(C14_Expected(disk))

\* A run starts on a record that has all five files: only X.core.json is
\* to be visited.
C14_Witness ==
    /\ pc = "loop"
    /\ Len(queue) = found
    /\ \A k \in Kinds : Exists(disk[PathOf("a", k)])
    /\ queue = <<PathOf("a", "core")>>

\* C15: after a non-dry-run call with delete_legacy_compacted set returns
\* without error, X.compacted.json does not exist.
C15_SidecarGone ==
    (last.called /\ ~last.raised /\ ~flags.dry_run /\ flags.delete_legacy_compacted) =>
        ~Exists(disk[legacy_compacted_path_for_record_path(last.path)])

\* The detail lines of the last call are resolvable: it generates a
\* non-empty detailed text.
C16_Resolvable == Truthy(DetailedText(last.before, last.path))

\* C16: after a non-dry-run call returns without error for a record whose
\* detail lines are resolvable, X.detailed.jsonl holds the generated lines
\* and X.detailed.json does not exist.
C16_LegacyDetailedGone ==
    (last.called /\ ~last.raised /\ ~flags.dry_run /\ C16_Resolvable) =>
        /\ LastDetailed = DetailedText(last.before, last.path)
        /\ ~Exists(disk[legacy_detailed_path_for_record_path(last.path)])

\* The last call deleted the sidecar.
C17_Deleted ==
    /\ last.called
    /\ Exists(LastSidecarBefore)
    /\ ~Exists(disk[legacy_compacted_path_for_record_path(last.path)])

\* C17: when a call has deleted X.compacted.json, X.core.json holds what
\* that call generated and its compacted array is the array the sidecar
\* held.
C17_DeletedAfterMerge ==
    C17_Deleted =>
        /\ LastCore = CoreText(last.before, last.path)
        /\ ~LoadsRaises(LastSidecarBefore)
        /\ LastCore.val["compacted"] = Loads(LastSidecarBefore)

(***************************************************************************)
(* Properties of the tool-call extraction                                  *)
(***************************************************************************)
C18_InResponse(entry) ==
    /\ entry.t = "dict"
    /\ "kind" \in DOMAIN entry
    /\ entry.kind = JStr("response")
    /\ "parts" \in DOMAIN entry
    /\ entry.parts.t = "list"

C18_NamedToolCall(part) ==
    /\ part.t = "dict"
    /\ "part_kind" \in DOMAIN part
    /\ part.part_kind = JStr("tool-call")
    /\ "tool_name" \in DOMAIN part
    /\ part.tool_name.t = "str"
    /\ part.tool_name.s # ""

\* args that are a string or a mapping
C18_ArgsGiven(part) == "args" \in DOMAIN part /\ part.args.t \in {"str", "dict"}
\* args that are absent or null
C18_ArgsNone(part) == "args" \notin DOMAIN part \/ part.args.t = "null"

C18_Call(part) ==
    [t |-> "dict", tool_name |-> part.tool_name,
     args |-> IF "args" \in DOMAIN part THEN part.args ELSE JNull]

\* The calls of the parts of one entry, in order; with_none tells whether
\* parts without args count.
RECURSIVE C18_OfParts(_, _)
C18_OfParts(parts, with_none) ==
    IF parts = <<>> THEN <<>>
    ELSE (IF /\ C18_NamedToolCall(Head(parts))
             /\ (C18_ArgsGiven(Head(parts)) \/ (with_none /\ C18_ArgsNone(Head(parts))))
          THEN <<C18_Call(Head(parts))>> ELSE <<>>)
         \o C18_OfParts(Tail(parts), with_none)

RECURSIVE C18_OfEntries(_, _)
C18_OfEntries(entries, with_none) ==
    IF entries = <<>> THEN <<>>
    ELSE (IF C18_InResponse(Head(entries))
          THEN C18_OfParts(Head(entries).parts.xs, with_none) ELSE <<>>)
         \o C18_OfEntries(Tail(entries), with_none)

C18_OfTrace(with_none) ==
    IF Get(LastRecord, "detailed").t = "list"
    THEN C18_OfEntries(Get(LastRecord, "detailed").xs, with_none)
    ELSE <<>>

RECURSIVE C20_RunOver(_, _)
C20_RunOver(d, q) ==
    IF q = <<>> THEN d
    ELSE C20_RunOver(migrate_record_file(d, Head(q), flags.delete_legacy_compacted,
                                         flags.force, flags.dry_run).disk,
                     Tail(q))

C20_Uninterrupted == C20_RunOver(crash.origin, Sorted(iter_record_files(crash.origin)))

\* The interrupted call was on a record with in-file input and output.
C20_InFile ==
    /\ crash.happened
    /\ IsStr(Get(Loads(crash.origin[crash.path]), "input"))
    /\ IsStr(Get(Loads(crash.origin[crash.path]), "output"))

\* C20: when a non-dry-run migration of a record with in-file input and
\* output was interrupted between the write of X.core.json and the write of
\* X.detailed.jsonl, a later complete run leaves every X.core.json and
\* X.detailed.jsonl with the bytes an uninterrupted run from the original
\* directory produces.
C20_Converges ==
    (C20_InFile /\ pc = "done") =>
        CanonicalFiles(disk) = CanonicalFiles(C20_Uninterrupted)

(***************************************************************************)
(* Properties of what a call keeps and of a call that raises               *)
(***************************************************************************)
\* The string value of key k of the processed record is line i of the
\* X.detailed.jsonl on disk.
C21_OnLine(k, i) ==
    /\ LastDetailed.t = "lines"
    /\ Len(LastDetailed.ls) >= i
    /\ LastDetailed.ls[i] = DumpsLine(Get(LastRecord, k))

\* The processed record holds a string under k and the X.core.json on disk
\* has no key k.
C21_Omitted(k) ==
    /\ IsStr(Get(LastRecord, k))
    /\ LastCore.t = "doc"
    /\ k \notin DOMAIN LastCore.val

\* C21: after a non-dry-run call that returned having written, every string
\* input or output of the processed file that X.core.json omits is line 1
\* (input) or line 2 (output) of X.detailed.jsonl, also when the file held
\* only one of the two.
C21_TextKept ==
    (last.called /\ ~last.raised /\ ~flags.dry_run /\ last.ret) =>
        /\ C21_Omitted("input") => C21_OnLine("input", 1)
        /\ C21_Omitted("output") => C21_OnLine("output", 2)

\* Why the last call has to raise, read off the files it started from.
C22_BadRecordFile ==
    \/ last.before[last.path].t = "garbage"
    \/ LastRecord.t # "dict"
C22_BadField(k) ==
    /\ ~C22_BadRecordFile
    /\ k \in DOMAIN LastRecord
    /\ LastRecord[k].t \notin {"str", "null"}
C22_BadSidecar ==
    /\ ~C22_BadRecordFile
    /\ ~IsStrList(Get(LastRecord, "compacted"))
    /\ LastSidecarBefore.t = "garbage"
C22_FormatError ==
    C22_BadRecordFile \/ C22_BadField("input") \/ C22_BadField("output") \/ C22_BadSidecar

\* C22: a call raises exactly on a format error (record file or sidecar not
\* parseable, record not an object, input or output present and not a
\* string), and such a call has created, modified and deleted no file, with
\* dry_run set or not.
C22_ErrorFrame ==
    last.called =>
        /\ last.raised <=> C22_FormatError
        /\ last.raised => disk = last.before

\* A call without dry_run has raised on an unparseable sidecar, for a legacy
\* record with input and output that has no X.core.json yet.
C22_Witness ==
    /\ last.called
    /\ last.raised
    /\ ~flags.dry_run
    /\ C22_BadSidecar
    /\ IsStr(Get(LastRecord, "input"))
    /\ IsStr(Get(LastRecord, "output"))
    /\ ~Exists(last.before[core_path_for_record_path(last.path)])

====
